---- MODULE Spec2Model ----
(***************************************************************************)
(* Model of the shared store of rehook (createStore, src/index.ts:488-515) *)
(* together with the part of React the store relies on: a consumer is a    *)
(* component instance that calls the hook returned by createStore; its     *)
(* useState cell, its useForce reducer, its registration effect and the    *)
(* cleanup of that effect are state of the model.                          *)
(*                                                                         *)
(* JavaScript values are records [t, v]: t is the type tag, v the number   *)
(* or the identity of the object, so that === is equality of the records.  *)
(*                                                                         *)
(* The other hooks are modelled next to it, each with its own variables    *)
(* and its own specification, which leaves the variables of the others at  *)
(* their initial values: createGlobal (src/index.ts:694-714, SpecGlobal),  *)
(* useAsync (src/index.ts:44-83, SpecAsync and SpecAsyncFair), the         *)
(* revisions of useForce (SpecForce), usePrevious (src/index.ts:117-121,   *)
(* SpecPrevious), useBoolean (src/index.ts:143-152, SpecBoolean),          *)
(* useResource (src/index.ts:208-239, SpecResource) and the registries of  *)
(* createStore and createGlobal under runs of their registration effects   *)
(* and cleanups (SpecUnregister).                                          *)
(***************************************************************************)
EXTENDS Integers, FiniteSets, Sequences, TLC

\* ---------------------------------------------------------------- bounds
NumConsumers == 2
MaxVal == 1
MaxForce == 2
MaxRun == 2
MaxQueue == 2
MaxCalls == 2
MaxChanges == 1
MaxClicks == 8
MaxRenders == 6
MaxMounts == 2

\* ---------------------------------------------------------------- values
Consumers == 1..NumConsumers

Undefined == [t |-> "undefined", v |-> 0]
Num(n) == [t |-> "number", v |-> n]
\* the strings "s" and "t", by index
Str(i) == [t |-> "string", v |-> i]
\* a record object {num, str}, by identity
Obj(i) == [t |-> "object", v |-> i]
Fn(i) == [t |-> "function", v |-> i]
\* the record passed to createStore, as a reference
StoreRef == [t |-> "store", v |-> 0]

Nums == {Num(n) : n \in 0..MaxVal}
Strs == {Str(1), Str(2)}
Objs == {Obj(1)}

\* the updaters the consumers pass: n => (n + 1) % (MaxVal + 1) and n => n
Increment == Fn(1)
Identity == Fn(2)
Fns == {Increment, Identity}

\* the fields of the record given to createStore
InitKeys == {"num", "str"}
\* useStore() called with no argument: key is undefined
NoKey == "$undefined"
BindKeys == InitKeys \cup {NoKey}

\* the fields of the record objects handed to the keyless setValue
ObjRecord(o) == [k \in InitKeys |-> IF k = "num" THEN Num(MaxVal) ELSE Str(2)]

\* ---------------------------------------------------------- JavaScript
\* NaN, the result of arithmetic on a non-number
NaN == [t |-> "number", v |-> -1]

\* a === b
StrictEquals(a, b) == a = b /\ a # NaN

\* !key: undefined and the empty string are falsy
Falsy(key) == key \in {NoKey, ""}

\* store[key]: a property name is a string, undefined becomes "undefined"
PropName(key) == IF key = NoKey THEN "undefined" ELSE key

\* reading store[key]; an absent property reads undefined
StoreGet(s, key) == IF PropName(key) \in DOMAIN s THEN s[PropName(key)] ELSE Undefined

\* store[key] = v; assigning an absent property creates it
StorePut(s, key, v) == [p \in DOMAIN s \cup {PropName(key)} |-> IF p = PropName(key) THEN v ELSE s[p]]

\* state instanceof Function
IsFunction(a) == a.t = "function"

\* calling an updater the consumers pass
Apply(f, v) ==
    IF f = Identity THEN v
    ELSE IF v.t = "number" /\ v # NaN THEN Num((v.v + 1) % (MaxVal + 1))
    ELSE NaN

\* ------------------------------------------------------------- state
VARIABLES
    store,      \* the record given to createStore, mutated in place
    listeners,  \* id -> [key]: the registrations (setState and force are the consumer's own)
    phase,      \* consumer -> "unmounted" | "rendered" | "registered" | "gone"
    key,        \* consumer -> the key it calls the hook with
    hook,       \* consumer -> the state of its useState cell (the value its next render returns)
    state,      \* consumer -> the value its last render returned
    forceX,     \* consumer -> the state of its useForce reducer
    pending,    \* the consumers React has scheduled a re-render for
    dispatch,   \* consumer -> the useCallback memo of its setValue: [ref, deps]
    last        \* the update call of the last step: its caller, argument, outcome and
                \* the callbacks it invoked; run and start count the updater calls one
                \* event handler issues in a row and hold the value the first one found

vars == <<store, listeners, phase, key, hook, state, forceX, pending, dispatch, last>>

\* createGlobal(global) and the components that call the hook it returns
VARIABLES
    global,         \* the record given to createGlobal, reassigned by the reducer
    dispatchArray,  \* the dispatch functions pushed by the effects, named by their consumer
    gPhase,         \* consumer -> "unmounted" | "rendered" | "registered" | "gone"
    gState,         \* consumer -> the reducer state its last render returned
    gQueue,         \* consumer -> the actions dispatched to its reducer, not yet reduced
    gLast           \* the setGlobal call of the last step: its argument and the dispatch
                    \* calls it made, in order

globalVars == <<global, dispatchArray, gPhase, gState, gQueue, gLast>>

\* useAsync(a) and the component that calls it
VARIABLES
    aPhase,     \* "unmounted" | "mounted" | "gone"
    input,      \* the argument a of the last render
    lastDeps,   \* the argument the effects last ran with (their dependency [a])
    cells,      \* the useState cells [state, value, error]
    out,        \* [state, value, error] as the last render returned them
    pstatus,    \* promise -> "unused" | "pending" (handlers attached) | "fulfilled" | "rejected"
    cbPending,  \* callback -> how many promises it returned have handlers attached and
                \* have not settled
    current,    \* how the input of the last render has settled since the effects of the
                \* render that brought it ran: "none" | "fulfilled" | "rejected"
    handled,    \* the input whose promise ran a handler last
    changes,    \* how often the component was re-rendered with another argument
    ran,        \* run() has been invoked
    called      \* a callback has been called

asyncVars ==
    <<aPhase, input, lastDeps, cells, out, pstatus, cbPending, current, handled, changes, ran, called>>

\* useForce() and the component that calls it
VARIABLES
    fRev,       \* the revision of useForce the component uses, "none" before its first render
    fX,         \* the state of the reducer
    fShown,     \* the state of the reducer at the last render
    fCalls,     \* how often the callback was invoked
    fRenders,   \* how often the component rendered
    fBatch,     \* how many invocations the running event handler has made, 0 outside one
    fSingle     \* every event handler so far made one invocation

forceVars == <<fRev, fX, fShown, fCalls, fRenders, fBatch, fSingle>>

\* usePrevious(value) and the component that calls it
VARIABLES
    pSeen,      \* the values passed to usePrevious, one per render
    pReturned,  \* the values usePrevious returned, one per render
    pRef,       \* ref.current
    pDeps       \* the value the effect last ran with (its dependency [value])

previousVars == <<pSeen, pReturned, pRef, pDeps>>

\* useBoolean(init) and the component that calls it
VARIABLES
    bPhase,     \* "unmounted" | "mounted"
    bInit,      \* the init of the first render
    bValue,     \* value as the last render returned it
    bQueue,     \* the updates passed to the setter of the cell since the last render
    bToggles,   \* how often toggle() was invoked
    bOnly,      \* no setter other than toggle() was invoked
    bLastOp,    \* the setter invoked last: "none" | "toggle" | "setTrue" | "setFalse" | "setValue"
    bRepeat     \* how often in a row it was invoked

booleanVars == <<bPhase, bInit, bValue, bQueue, bToggles, bOnly, bLastOp, bRepeat>>

\* useResource(type, url), the body of useImage, useScript and useStylesheet
VARIABLES
    rPhase,     \* "unmounted" | "mounted" | "gone"
    rType,      \* "img" | "link" | "script"
    rUrl,       \* url of the last render
    rDeps,      \* url the effect last ran with, NoUrl before it ran
    rElements,  \* the elements created so far, the last one by the last run of the effect
    rCell,      \* the cells loaded and error
    rOut,       \* [loaded, error] as the last render returned it
    rLast,      \* what set the cells last
    rChanges    \* how often the url changed

resourceVars == <<rPhase, rType, rUrl, rDeps, rElements, rCell, rOut, rLast, rChanges>>

\* the registries of createStore and createGlobal under the effects and cleanups of
\* the mounts of their hooks
VARIABLES
    uListeners, \* createStore: listeners, by the useId of the mount
    uArray,     \* createGlobal: dispatchArray; the dispatch of a mount is its number
    uAdded,     \* per mount: the createStore effect ran
    uPushed,    \* per mount: the createGlobal effect ran
    uDeletes,   \* per mount: how often the createStore cleanup ran
    uSplices    \* per mount: how often the createGlobal cleanup ran

unregisterVars == <<uListeners, uArray, uAdded, uPushed, uDeletes, uSplices>>

\* the variables of the other components, which the actions of one leave alone
notStore == <<globalVars, asyncVars, forceVars, previousVars, booleanVars, resourceVars, unregisterVars>>
notGlobal == <<vars, asyncVars, forceVars, previousVars, booleanVars, resourceVars, unregisterVars>>
notAsync == <<vars, globalVars, forceVars, previousVars, booleanVars, resourceVars, unregisterVars>>
notForce == <<vars, globalVars, asyncVars, previousVars, booleanVars, resourceVars, unregisterVars>>
notPrevious == <<vars, globalVars, asyncVars, forceVars, booleanVars, resourceVars, unregisterVars>>
notBoolean == <<vars, globalVars, asyncVars, forceVars, previousVars, resourceVars, unregisterVars>>
notResource == <<vars, globalVars, asyncVars, forceVars, previousVars, booleanVars, unregisterVars>>
notUnregister == <<vars, globalVars, asyncVars, forceVars, previousVars, booleanVars, resourceVars>>

\* no update call in the last step
Idle == [op |-> "none", id |-> 0, arg |-> Undefined, threw |-> FALSE, calls |-> {},
         run |-> 0, start |-> Undefined]

\* createStore(store): no registration yet, no consumer rendered
Init ==
    /\ store = [k \in InitKeys |-> IF k = "num" THEN Num(0) ELSE Str(1)]
    /\ listeners = <<>>
    /\ phase = [c \in Consumers |-> "unmounted"]
    /\ key = [c \in Consumers |-> NoKey]
    /\ hook = [c \in Consumers |-> Undefined]
    /\ state = [c \in Consumers |-> Undefined]
    /\ forceX = [c \in Consumers |-> 0]
    /\ pending = {}
    /\ dispatch = [c \in Consumers |-> Undefined]
    /\ last = Idle

\* ------------------------------------------------------ createGlobal
\* the record given to createGlobal: a number and a nested record whose y is optional
GlobalRecord == [n |-> 0, o |-> [x |-> 0, y |-> 0]]

\* {}: the partial with no field
NoPartial == [f \in {} |-> 0]

\* the arguments of setGlobal: Partial<T>
Partials ==
    {NoPartial, [n |-> 0], [n |-> 1], [o |-> [x |-> 1]]}

\* no setGlobal call in the last step
GlobalIdle == [op |-> "none", partial |-> NoPartial, calls |-> <<>>]

\* createGlobal(global): no dispatch pushed yet, no consumer rendered
InitGlobal ==
    /\ global = GlobalRecord
    /\ dispatchArray = <<>>
    /\ gPhase = [c \in Consumers |-> "unmounted"]
    /\ gState = [c \in Consumers |-> Undefined]
    /\ gQueue = [c \in Consumers |-> <<>>]
    /\ gLast = GlobalIdle

\* reducer: {...curState, ...newState}
Reducer_deep(curState, newState) ==
    [f \in DOMAIN curState \cup DOMAIN newState |->
        IF f \notin DOMAIN newState THEN curState[f]
        ELSE IF f = "o" /\ f \in DOMAIN curState
        THEN [g \in DOMAIN curState[f] \cup DOMAIN newState[f] |->
                IF g \in DOMAIN newState[f] THEN newState[f][g] ELSE curState[f][g]]
        ELSE newState[f]]
Reducer(curState, newState) ==
    [f \in DOMAIN curState \cup DOMAIN newState |->
        IF f \in DOMAIN newState THEN newState[f] ELSE curState[f]]

\* useReducer: a render reduces the queued actions in the order they were dispatched
RECURSIVE Reduce(_, _)
Reduce(curState, queue) ==
    IF queue = <<>> THEN curState
    ELSE Reduce(Reducer(curState, Head(queue)), Tail(queue))

\* updateGlobal: for (const dispatch of dispatchArray) dispatch(state)
UpdateGlobal_changing(arr, st) ==
    IF DOMAIN st = {} THEN <<>> ELSE [i \in 1..Len(arr) |-> [id |-> arr[i], arg |-> st]]
UpdateGlobal(arr, st) == [i \in 1..Len(arr) |-> [id |-> arr[i], arg |-> st]]

\* dispatchArray.indexOf(dispatch): the first position, 0 for JavaScript's -1
IndexOf(arr, d) ==
    IF \E i \in 1..Len(arr) : arr[i] = d
    THEN CHOOSE i \in 1..Len(arr) : arr[i] = d /\ \A j \in 1..(i - 1) : arr[j] # d
    ELSE 0

\* dispatchArray.splice(idx, 1): splice(-1, 1) removes the last element
Splice(arr, idx) ==
    LET at == IF idx = 0 THEN Len(arr) ELSE idx
    IN  [k \in 1..(Len(arr) - 1) |-> IF k < at THEN arr[k] ELSE arr[k + 1]]

\* the arguments of the dispatch calls made to consumer c, in order
DispatchedTo(calls, c) ==
    LET mine == SelectSeq(calls, LAMBDA x : x.id = c)
    IN  [i \in 1..Len(mine) |-> mine[i].arg]

\* the first render: React.useReducer(reducer, global)
GlobalMount(c) ==
    /\ gPhase[c] = "unmounted"
    /\ \A d \in Consumers : d < c => gPhase[d] # "unmounted"
    /\ \A d \in Consumers : gQueue[d] = <<>>
    /\ gPhase' = [gPhase EXCEPT ![c] = "rendered"]
    /\ gState' = [gState EXCEPT ![c] = global]
    /\ gLast' = GlobalIdle
    /\ UNCHANGED <<global, dispatchArray, gQueue, notGlobal>>

\* the effect of the first render runs: dispatchArray.push(dispatch)
GlobalRegister(c) ==
    /\ gPhase[c] = "rendered"
    /\ \A d \in Consumers : gQueue[d] = <<>>
    /\ gPhase' = [gPhase EXCEPT ![c] = "registered"]
    /\ dispatchArray' = Append(dispatchArray, c)
    /\ gLast' = GlobalIdle
    /\ UNCHANGED <<global, gState, gQueue, notGlobal>>

\* an event handler calls setGlobal(st), the updateGlobal every consumer was handed;
\* consecutive SetGlobal steps are the calls of one handler
SetGlobal(st) ==
    /\ \E c \in Consumers : gPhase[c] # "unmounted"
    /\ LET calls == UpdateGlobal(dispatchArray, st)
       IN  /\ \A c \in Consumers : Len(gQueue[c]) + Len(DispatchedTo(calls, c)) <= MaxQueue
           /\ gQueue' = [c \in Consumers |-> gQueue[c] \o DispatchedTo(calls, c)]
           /\ gLast' = [op |-> "setGlobal", partial |-> st, calls |-> calls]
    /\ UNCHANGED <<global, dispatchArray, gPhase, gState, notGlobal>>

\* React re-renders the consumers with queued actions, in the order of the tree: each
\* reduces its queue, and every reducer call assigns its result to global
GlobalRender ==
    /\ \E c \in Consumers : gQueue[c] # <<>>
    /\ LET dirty == {c \in Consumers : gQueue[c] # <<>>}
           final == CHOOSE c \in dirty : \A d \in dirty : d <= c
       IN  /\ gState' = [c \in Consumers |->
                           IF c \in dirty THEN Reduce(gState[c], gQueue[c]) ELSE gState[c]]
           /\ global' = Reduce(gState[final], gQueue[final])
    /\ gQueue' = [c \in Consumers |-> <<>>]
    /\ gLast' = GlobalIdle
    /\ UNCHANGED <<dispatchArray, gPhase, notGlobal>>

\* the consumer unmounts: the cleanup takes its dispatch out of dispatchArray
GlobalUnmount(c) ==
    /\ gPhase[c] = "registered"
    /\ \A d \in Consumers : gQueue[d] = <<>>
    /\ gPhase' = [gPhase EXCEPT ![c] = "gone"]
    /\ dispatchArray' = Splice(dispatchArray, IndexOf(dispatchArray, c))
    /\ gState' = [gState EXCEPT ![c] = Undefined]
    /\ gLast' = GlobalIdle
    /\ UNCHANGED <<global, gQueue, notGlobal>>

\* ---------------------------------------------------------- useAsync
\* the arguments the component passes: two promises and two callbacks
Promise(i) == [form |-> "promise", id |-> i]
Callback(i) == [form |-> "callback", id |-> i]
Promises == {Promise(1), Promise(2)}
Callbacks == {Callback(1), Callback(2)}
Inputs == Promises \cup Callbacks

\* const isPromise = a instanceof Promise
IsPromise(a) == a.form = "promise"

\* the value a promise fulfils with or the error it rejects with: each input has its own
ResultOf(a) == [t |-> "result", of |-> a]

\* useState("pending"), useState(), useState()
InitialCells_fulfilled == [state |-> "fulfilled", value |-> Undefined, error |-> Undefined]
InitialCells == [state |-> "pending", value |-> Undefined, error |-> Undefined]

\* the cleanup of the second effect: setState("pending"); setValue(undefined); setError(undefined)
ResetCells == [state |-> "pending", value |-> Undefined, error |-> Undefined]

\* .then(value => { setState("fulfilled"); setValue(value); setError(undefined) })
OnFulfilled_noValue(value) == [state |-> "fulfilled", value |-> Undefined, error |-> Undefined]
OnFulfilled(value) == [state |-> "fulfilled", value |-> value, error |-> Undefined]

\* .catch(error => { setState("rejected"); setValue(undefined); setError(error) })
OnRejected_noError(error) == [state |-> "rejected", value |-> Undefined, error |-> Undefined]
OnRejected(error) == [state |-> "rejected", value |-> Undefined, error |-> error]

\* the handler that runs when a promise of input a settles as kind
Handler(kind, a) ==
    IF kind = "fulfilled" THEN OnFulfilled(ResultOf(a)) ELSE OnRejected(ResultOf(a))

\* the first effect: if (!isPromise) return; a.then(...)
EffectAwaits_always(a) == TRUE
EffectAwaits(a) == IsPromise(a)

\* run: if (isPromise) return; a().then(...)
RunAwaits(a) == ~IsPromise(a)

\* the promise has settled
Settled(a) == pstatus[a.id] \in {"fulfilled", "rejected"}

InitAsync ==
    /\ aPhase = "unmounted"
    /\ input = Undefined
    /\ lastDeps = Undefined
    /\ cells = Undefined
    /\ out = Undefined
    /\ pstatus = [i \in {1, 2} |-> "unused"]
    /\ cbPending = [i \in {1, 2} |-> 0]
    /\ current = "none"
    /\ handled = Undefined
    /\ changes = 0
    /\ ran = FALSE
    /\ called = FALSE

\* handlers are attached to the promise a (promise form) or to the promise the call a()
\* returns (callback form); cur is what the cells hold at that moment. The handler of
\* a promise that has settled already runs at once, before any event.
Await(a, cur) ==
    IF IsPromise(a)
    THEN /\ pstatus' = [pstatus EXCEPT ![a.id] = IF @ = "unused" THEN "pending" ELSE @]
         /\ cells' = IF Settled(a) THEN Handler(pstatus[a.id], a) ELSE cur
         /\ current' = IF Settled(a) THEN pstatus[a.id] ELSE current
         /\ handled' = IF Settled(a) THEN a ELSE handled
         /\ UNCHANGED <<cbPending, called>>
    ELSE /\ cbPending[a.id] < MaxCalls
         /\ cbPending' = [cbPending EXCEPT ![a.id] = @ + 1]
         /\ called' = TRUE
         /\ cells' = cur
         /\ UNCHANGED <<pstatus, current, handled>>

\* the first render with argument a
AsyncMount(a) ==
    /\ aPhase = "unmounted"
    /\ aPhase' = "mounted"
    /\ input' = a
    /\ cells' = InitialCells
    /\ out' = InitialCells
    /\ UNCHANGED <<lastDeps, pstatus, cbPending, current, handled, changes, ran, called,
                   notAsync>>

\* the effects run after a render whose argument differs from the one they last ran
\* with: first the cleanup of the previous run, then the effects
Effects ==
    /\ aPhase = "mounted"
    /\ lastDeps # input
    /\ LET cur == IF lastDeps = Undefined THEN cells ELSE ResetCells
       IN  IF EffectAwaits(input) THEN Await(input, cur)
           ELSE cells' = cur /\ UNCHANGED <<pstatus, cbPending, current, handled, called>>
    /\ lastDeps' = input
    /\ UNCHANGED <<aPhase, input, out, changes, ran, notAsync>>

\* React re-renders the component after its cells changed
AsyncRender ==
    /\ aPhase = "mounted"
    /\ lastDeps = input
    /\ out # cells
    /\ out' = cells
    /\ UNCHANGED <<aPhase, input, lastDeps, cells, pstatus, cbPending, current, handled,
                   changes, ran, called, notAsync>>

\* the parent re-renders the component with another argument
NewInput(a) ==
    /\ aPhase = "mounted"
    /\ lastDeps = input
    /\ out = cells
    /\ a # input
    /\ changes < MaxChanges
    /\ input' = a
    /\ changes' = changes + 1
    /\ current' = "none"
    /\ UNCHANGED <<aPhase, lastDeps, cells, out, pstatus, cbPending, handled, ran, called,
                   notAsync>>

\* an event handler invokes the run of the last render
Run ==
    /\ aPhase = "mounted"
    /\ lastDeps = input
    /\ out = cells
    /\ ran' = TRUE
    /\ IF RunAwaits(input) THEN Await(input, cells)
       ELSE UNCHANGED <<cells, pstatus, cbPending, current, handled, called>>
    /\ UNCHANGED <<aPhase, input, lastDeps, out, changes, notAsync>>

\* a promise with handlers attached settles and its handlers run (what happens after
\* the component is gone is not followed)
Settle(a, kind) ==
    /\ aPhase = "mounted"
    /\ IF IsPromise(a)
       THEN /\ pstatus[a.id] = "pending"
            /\ pstatus' = [pstatus EXCEPT ![a.id] = kind]
            /\ UNCHANGED cbPending
       ELSE /\ cbPending[a.id] > 0
            /\ cbPending' = [cbPending EXCEPT ![a.id] = @ - 1]
            /\ UNCHANGED pstatus
    /\ cells' = Handler(kind, a)
    /\ current' = IF a = input /\ lastDeps = input THEN kind ELSE current
    /\ handled' = a
    /\ UNCHANGED <<aPhase, input, lastDeps, out, changes, ran, called, notAsync>>

\* the component unmounts: React drops its cells
AsyncUnmount ==
    /\ aPhase = "mounted"
    /\ lastDeps = input
    /\ out = cells
    /\ aPhase' = "gone"
    /\ input' = Undefined
    /\ lastDeps' = Undefined
    /\ cells' = Undefined
    /\ out' = Undefined
    /\ current' = "none"
    /\ handled' = Undefined
    /\ UNCHANGED <<pstatus, cbPending, changes, ran, called, notAsync>>

\* ---------------------------------------------------------- useForce
\* the revisions: useReducer(x => ++x, 0), useReducer(x => !x, false),
\* useReducer(x => x + 1, 0)
Revisions == {"increment", "toggle", "plusOne"}

\* the initial state of the reducer
ForceInitial(rev) == IF rev = "toggle" THEN FALSE ELSE 0

\* the reducer
ForceStep_same(rev, x) == x
ForceStep(rev, x) == IF rev = "toggle" THEN ~x ELSE x + 1

InitForce ==
    /\ fRev = "none"
    /\ fX = 0
    /\ fShown = 0
    /\ fCalls = 0
    /\ fRenders = 0
    /\ fBatch = 0
    /\ fSingle = TRUE

\* the first render of a component that uses revision rev
ForceMount(rev) ==
    /\ fRev = "none"
    /\ fRev' = rev
    /\ fX' = ForceInitial(rev)
    /\ fShown' = ForceInitial(rev)
    /\ fRenders' = 1
    /\ UNCHANGED <<fCalls, fBatch, fSingle, notForce>>

\* an event handler starts and invokes the callback: dispatch
Click ==
    /\ fRev # "none"
    /\ fBatch = 0
    /\ fCalls < MaxClicks
    /\ fX' = ForceStep(fRev, fX)
    /\ fCalls' = fCalls + 1
    /\ fBatch' = 1
    /\ UNCHANGED <<fRev, fShown, fRenders, fSingle, notForce>>

\* the running event handler invokes the callback once more
CallAgain ==
    /\ fBatch >= 1
    /\ fBatch < MaxRun
    /\ fCalls < MaxClicks
    /\ fX' = ForceStep(fRev, fX)
    /\ fCalls' = fCalls + 1
    /\ fBatch' = fBatch + 1
    /\ fSingle' = FALSE
    /\ UNCHANGED <<fRev, fShown, fRenders, notForce>>

\* the event handler has returned: React renders the component again when the state
\* of the reducer is not the one of the last render
ForceRender ==
    /\ fBatch >= 1
    /\ fBatch' = 0
    /\ fShown' = fX
    /\ fRenders' = IF fX # fShown THEN fRenders + 1 ELSE fRenders
    /\ UNCHANGED <<fRev, fX, fCalls, fSingle, notForce>>

\* ------------------------------------------------------- usePrevious
\* the values the component passes: numbers
Values == Nums

InitPrevious ==
    /\ pSeen = <<>>
    /\ pReturned = <<>>
    /\ pRef = Undefined
    /\ pDeps = Undefined

\* the effect: ref.current = value
RefAfterEffect_kept(ref, value) == ref
RefAfterEffect(ref, value) == value

\* the effect of the last render is due: its dependency [value] differs from the one
\* it last ran with, or it never ran
EffectDue == pSeen # <<>> /\ pDeps # pSeen[Len(pSeen)]

\* the first render: useRef(value); return ref.current
PreviousMount(value) ==
    /\ pSeen = <<>>
    /\ pRef' = value
    /\ pSeen' = <<value>>
    /\ pReturned' = <<value>>
    /\ UNCHANGED <<pDeps, notPrevious>>

\* the effect of the last render runs
PreviousEffect ==
    /\ EffectDue
    /\ pRef' = RefAfterEffect(pRef, pSeen[Len(pSeen)])
    /\ pDeps' = pSeen[Len(pSeen)]
    /\ UNCHANGED <<pSeen, pReturned, notPrevious>>

\* a later render, after the effects of the one before it: return ref.current
PreviousRender(value) ==
    /\ pSeen # <<>>
    /\ ~EffectDue
    /\ Len(pSeen) < MaxRenders
    /\ pSeen' = Append(pSeen, value)
    /\ pReturned' = Append(pReturned, pRef)
    /\ UNCHANGED <<pRef, pDeps, notPrevious>>

\* -------------------------------------------------------- useBoolean
InitBoolean ==
    /\ bPhase = "unmounted"
    /\ bInit = FALSE
    /\ bValue = FALSE
    /\ bQueue = <<>>
    /\ bToggles = 0
    /\ bOnly = TRUE
    /\ bLastOp = "none"
    /\ bRepeat = 0

\* an update passed to the setter of the cell: a value or a function of the value
Const(b) == [t |-> "value", v |-> b]
Updater == [t |-> "function", v |-> FALSE]

\* toggle: setValue(value => !value)
ToggleUpdate_stale(value) == Const(~value)
ToggleUpdate(value) == Updater

\* setTrue: setValue(true)
SetTrueUpdate_function(value) == Updater
SetTrueUpdate(value) == Const(TRUE)

\* setFalse: setValue(false)
SetFalseUpdate_function(value) == Updater
SetFalseUpdate(value) == Const(FALSE)

\* useState: an update gives the new state; the function is value => !value
ApplyUpdate(value, update) == IF update.t = "function" THEN ~value ELSE update.v

\* useState: a render applies the queued updates in the order they were passed
RECURSIVE ApplyQueue(_, _)
ApplyQueue(value, queue) ==
    IF queue = <<>> THEN value
    ELSE ApplyQueue(ApplyUpdate(value, Head(queue)), Tail(queue))

\* the setter op was invoked once more
Invoked(op) ==
    /\ bLastOp' = op
    /\ bRepeat' = IF bLastOp = op THEN bRepeat + 1 ELSE 1
    /\ bOnly' = (bOnly /\ op = "toggle")

\* an event handler may invoke op: the queue and the run of equal invocations are bounded
MayInvoke(op) ==
    /\ bPhase = "mounted"
    /\ Len(bQueue) < MaxRun
    /\ (op # "toggle" /\ bLastOp = op) => bRepeat < MaxRun

\* the first render: React.useState(init)
BooleanMount(init) ==
    /\ bPhase = "unmounted"
    /\ bPhase' = "mounted"
    /\ bInit' = init
    /\ bValue' = init
    /\ UNCHANGED <<bQueue, bToggles, bOnly, bLastOp, bRepeat, notBoolean>>

\* an event handler invokes toggle(), the callback of the last render
Toggle ==
    /\ MayInvoke("toggle")
    /\ bToggles < MaxClicks
    /\ bQueue' = Append(bQueue, ToggleUpdate(bValue))
    /\ bToggles' = bToggles + 1
    /\ Invoked("toggle")
    /\ UNCHANGED <<bPhase, bInit, bValue, notBoolean>>

SetTrue ==
    /\ MayInvoke("setTrue")
    /\ bQueue' = Append(bQueue, SetTrueUpdate(bValue))
    /\ Invoked("setTrue")
    /\ UNCHANGED <<bPhase, bInit, bValue, bToggles, notBoolean>>

SetFalse ==
    /\ MayInvoke("setFalse")
    /\ bQueue' = Append(bQueue, SetFalseUpdate(bValue))
    /\ Invoked("setFalse")
    /\ UNCHANGED <<bPhase, bInit, bValue, bToggles, notBoolean>>

\* an event handler invokes the setValue of the cell with a boolean
BooleanSetValue(b) ==
    /\ MayInvoke("setValue")
    /\ bQueue' = Append(bQueue, Const(b))
    /\ Invoked("setValue")
    /\ UNCHANGED <<bPhase, bInit, bValue, bToggles, notBoolean>>

\* React renders the component again: value is the cell after the queued updates
BooleanRender ==
    /\ bQueue # <<>>
    /\ bValue' = ApplyQueue(bValue, bQueue)
    /\ bQueue' = <<>>
    /\ UNCHANGED <<bPhase, bInit, bToggles, bOnly, bLastOp, bRepeat, notBoolean>>

\* ------------------------------------------------------- useResource
Types == {"img", "link", "script"}
Urls == {"a", "b"}
NoUrl == "none"
Null == "null"
\* the events an element hands to onerror
Errors == {"e1", "e2"}

\* React.useState(false), React.useState(null)
InitialCell == [loaded |-> FALSE, error |-> Null]

\* element.onerror = e => { setLoaded(false); setError(e) }
OnError_noEvent(e) == [loaded |-> FALSE, error |-> Null]
OnError(e) == [loaded |-> FALSE, error |-> e]

\* element.onload = () => { setLoaded(true); setError(null) }
OnLoad_only == [loaded |-> TRUE, error |-> rCell.error]
OnLoad == [loaded |-> TRUE, error |-> Null]

\* the cleanup of the effect: setLoaded(false); setError(null)
Cleanup == [loaded |-> FALSE, error |-> Null]

\* document.createElement(type) with its url; only img stays out of the document
CreateElement(type, url) == [url |-> url, attached |-> type # "img", fired |-> FALSE]

\* element.remove() on the element the last run of the effect created
RemoveLast(elements) ==
    [i \in 1..Len(elements) |->
        IF i = Len(elements) THEN [elements[i] EXCEPT !.attached = FALSE] ELSE elements[i]]

NoLast == [by |-> "none", el |-> 0, e |-> Null]

InitResource ==
    /\ rPhase = "unmounted"
    /\ rType = "img"
    /\ rUrl = NoUrl
    /\ rDeps = NoUrl
    /\ rElements = <<>>
    /\ rCell = InitialCell
    /\ rOut = InitialCell
    /\ rLast = NoLast
    /\ rChanges = 0

\* the effect with dependency [url] has to run
ResourceEffectDue == rPhase = "mounted" /\ rDeps # rUrl

\* the first render
ResourceMount(type, url) ==
    /\ rPhase = "unmounted"
    /\ rPhase' = "mounted"
    /\ rType' = type
    /\ rUrl' = url
    /\ rOut' = rCell
    /\ UNCHANGED <<rDeps, rElements, rCell, rLast, rChanges, notResource>>

\* after a render with a new url: the cleanup of the last run, then the effect
ResourceEffect ==
    /\ ResourceEffectDue
    /\ rElements' = Append(IF rDeps = NoUrl THEN rElements ELSE RemoveLast(rElements),
                           CreateElement(rType, rUrl))
    /\ rCell' = IF rDeps = NoUrl THEN rCell ELSE Cleanup
    /\ rLast' = IF rDeps = NoUrl THEN rLast ELSE [by |-> "cleanup", el |-> Len(rElements), e |-> Null]
    /\ rDeps' = rUrl
    /\ UNCHANGED <<rPhase, rType, rUrl, rOut, rChanges, notResource>>

\* a render after the cells changed
ResourceRender ==
    /\ rPhase = "mounted"
    /\ ~ResourceEffectDue
    /\ rOut # rCell
    /\ rOut' = rCell
    /\ UNCHANGED <<rPhase, rType, rUrl, rDeps, rElements, rCell, rLast, rChanges, notResource>>

\* the parent renders the component with another url
NewUrl(url) ==
    /\ rPhase = "mounted"
    /\ ~ResourceEffectDue
    /\ url # rUrl
    /\ rChanges < MaxChanges
    /\ rChanges' = rChanges + 1
    /\ rUrl' = url
    /\ rOut' = rCell
    /\ UNCHANGED <<rPhase, rType, rDeps, rElements, rCell, rLast, notResource>>

\* element i fires its load event
FireLoad(i) ==
    /\ rPhase = "mounted"
    /\ ~rElements[i].fired
    /\ rElements' = [rElements EXCEPT ![i].fired = TRUE]
    /\ rCell' = OnLoad
    /\ rLast' = [by |-> "load", el |-> i, e |-> Null]
    /\ UNCHANGED <<rPhase, rType, rUrl, rDeps, rOut, rChanges, notResource>>

\* element i fires its error event e
FireError(i, e) ==
    /\ rPhase = "mounted"
    /\ ~rElements[i].fired
    /\ rElements' = [rElements EXCEPT ![i].fired = TRUE]
    /\ rCell' = OnError(e)
    /\ rLast' = [by |-> "error", el |-> i, e |-> e]
    /\ UNCHANGED <<rPhase, rType, rUrl, rDeps, rOut, rChanges, notResource>>

\* the component unmounts: the cleanup of the last run; the setters of an unmounted
\* component do nothing
ResourceUnmount ==
    /\ rPhase = "mounted"
    /\ ~ResourceEffectDue
    /\ rPhase' = "gone"
    /\ rElements' = RemoveLast(rElements)
    /\ UNCHANGED <<rType, rUrl, rDeps, rCell, rOut, rLast, rChanges, notResource>>

\* ------------------------------------------ registration and removal
\* the mounts of a hook: each has its own useId and its own dispatch
Mounts == 1..MaxMounts

InitUnregister ==
    /\ uListeners = <<>>
    /\ uArray = <<>>
    /\ uAdded = [m \in Mounts |-> FALSE]
    /\ uPushed = [m \in Mounts |-> FALSE]
    /\ uDeletes = [m \in Mounts |-> 0]
    /\ uSplices = [m \in Mounts |-> 0]

\* every component before its first use
InitAll == Init /\ InitGlobal /\ InitAsync /\ InitForce /\ InitPrevious /\ InitBoolean /\ InitResource
           /\ InitUnregister

\* ------------------------------------------------------- createStore
\* React.useState(key ? store[key] : store): the initial state of the cell
InitialState_record(k) ==
    IF ~Falsy(k) THEN StoreGet([p \in InitKeys |-> IF p = "num" THEN Num(0) ELSE Str(1)], k)
    ELSE StoreRef
InitialState(k) == IF ~Falsy(k) THEN StoreGet(store, k) ELSE StoreRef

\* useForce: the reducer x => ++x
ForceReducer(x) == x + 1

\* update: const newState = state instanceof Function ? state(store[queryKey]) : state
ResolveState_stale(id, queryKey, arg) == IF IsFunction(arg) THEN Apply(arg, state[id]) ELSE arg
ResolveState(id, queryKey, arg) == IF IsFunction(arg) THEN Apply(arg, StoreGet(store, queryKey)) ELSE arg

\* update: if (store[queryKey] === newState) return
SameState_never(cur, newState) == FALSE
SameState(cur, newState) == StrictEquals(cur, newState)

\* update: if (queryKey === key) setState(store[key])
NotifyMatch_all(queryKey, k) == TRUE
NotifyMatch_none(queryKey, k) == FALSE
NotifyMatch(queryKey, k) == queryKey = k

\* update: if (!key) force()
ForceMatch_never(k) == FALSE
ForceMatch(k) == Falsy(k)

\* the loop of update over the registrations: the callbacks it invokes
Notify_before(ls, s, queryKey) ==
    {[id |-> i, fn |-> "setState", arg |-> StoreGet(store, ls[i].key)] :
        i \in {j \in DOMAIN ls : NotifyMatch(queryKey, ls[j].key)}}
    \cup
    {[id |-> i, fn |-> "force", arg |-> Undefined] :
        i \in {j \in DOMAIN ls : ForceMatch(ls[j].key)}}
Notify(ls, s, queryKey) ==
    {[id |-> i, fn |-> "setState", arg |-> StoreGet(s, ls[i].key)] :
        i \in {j \in DOMAIN ls : NotifyMatch(queryKey, ls[j].key)}}
    \cup
    {[id |-> i, fn |-> "force", arg |-> Undefined] :
        i \in {j \in DOMAIN ls : ForceMatch(ls[j].key)}}

\* update(id, state): what the call does to the store and which callbacks it invokes
Update(id, arg) ==
    IF id \notin DOMAIN listeners
    THEN \* const [queryKey] = listeners[id] throws a TypeError: undefined is not iterable
         [threw |-> TRUE, cur |-> Undefined, store |-> store, calls |-> {}]
    ELSE LET queryKey == listeners[id].key
             cur == StoreGet(store, queryKey)
             newState == ResolveState(id, queryKey, arg)
         IN  IF SameState(cur, newState)
             THEN [threw |-> FALSE, cur |-> cur, store |-> store, calls |-> {}]
             ELSE [threw |-> FALSE, cur |-> cur,
                   store |-> StorePut(store, queryKey, newState),
                   calls |-> Notify(listeners, StorePut(store, queryKey, newState), queryKey)]

\* the effect: listeners[id] = [key, setState, force]
AddListener_shared(ls, id, k) == [i \in DOMAIN ls \cup {1} |-> IF i = 1 THEN [key |-> k] ELSE ls[i]]
AddListener(ls, id, k) == [i \in DOMAIN ls \cup {id} |-> IF i = id THEN [key |-> k] ELSE ls[i]]

\* the cleanup of the effect: delete listeners[id]
RemoveListener_keep(ls, id) == ls
RemoveListener(ls, id) == [i \in DOMAIN ls \ {id} |-> ls[i]]

\* React.useCallback(fn, deps): the memoised function is kept while the dependencies
\* are the same, and a new function (a new reference) is taken when they differ
UseCallback(memo, deps) ==
    IF memo # Undefined /\ memo.deps = deps THEN memo
    ELSE [ref |-> (IF memo = Undefined THEN 0 ELSE memo.ref) + 1, deps |-> deps]

\* the dependencies of dispatch: [id], the useId of the consumer
DispatchDeps_state(c, cell) == <<c, cell>>
DispatchDeps(c, cell) == <<c>>

\* the arguments a consumer passes to its setValue: a field value or an updater
\* through a keyed binding, a record (or the store given back) through the keyless one
ArgsFor(k) ==
    IF k = NoKey THEN Objs \cup {StoreRef}
    ELSE IF k = "num" THEN Nums \cup Fns
    ELSE Strs \cup {Identity}

\* every argument some consumer passes
Args == Nums \cup Strs \cup Fns \cup Objs \cup {StoreRef}

\* the setState calls among the callbacks invoked, by consumer
SetStateCall(calls, i) == {x \in calls : x.id = i /\ x.fn = "setState"}
ForceCall(calls, i) == {x \in calls : x.id = i /\ x.fn = "force"}

\* ----------------------------------------------------------- actions
\* React commits the renders an event handler scheduled before it mounts or
\* unmounts a component, runs an effect or handles the next event.

\* first render of a consumer: useState, useId, useForce, useCallback
Mount(c, k) ==
    /\ phase[c] = "unmounted"
    /\ \A d \in Consumers : d < c => phase[d] # "unmounted"
    /\ pending = {}
    /\ phase' = [phase EXCEPT ![c] = "rendered"]
    /\ key' = [key EXCEPT ![c] = k]
    /\ hook' = [hook EXCEPT ![c] = InitialState(k)]
    /\ state' = [state EXCEPT ![c] = InitialState(k)]
    /\ dispatch' = [dispatch EXCEPT ![c] = UseCallback(Undefined, DispatchDeps(c, InitialState(k)))]
    /\ last' = Idle
    /\ UNCHANGED <<store, listeners, forceX, pending, notStore>>

\* the effect of the first render runs
Register(c) ==
    /\ phase[c] = "rendered"
    /\ pending = {}
    /\ phase' = [phase EXCEPT ![c] = "registered"]
    /\ listeners' = AddListener(listeners, c, key[c])
    /\ last' = Idle
    /\ UNCHANGED <<store, key, hook, state, forceX, pending, dispatch, notStore>>

\* React re-renders the consumers whose cell or reducer changed: the hook returns the
\* cell and the memoised dispatch
Render ==
    /\ pending # {}
    /\ state' = [c \in Consumers |-> IF c \in pending THEN hook[c] ELSE state[c]]
    /\ dispatch' = [c \in Consumers |-> IF c \in pending
                                          THEN UseCallback(dispatch[c], DispatchDeps(c, hook[c]))
                                          ELSE dispatch[c]]
    /\ pending' = {}
    /\ last' = Idle
    /\ UNCHANGED <<store, listeners, phase, key, hook, forceX, notStore>>

\* the consumer unmounts: the cleanup of the effect runs, React drops its cell, reducer
\* and memo
Unmount(c) ==
    /\ phase[c] = "registered"
    /\ pending = {}
    /\ phase' = [phase EXCEPT ![c] = "gone"]
    /\ listeners' = RemoveListener(listeners, c)
    /\ hook' = [hook EXCEPT ![c] = Undefined]
    /\ state' = [state EXCEPT ![c] = Undefined]
    /\ forceX' = [forceX EXCEPT ![c] = 0]
    /\ dispatch' = [dispatch EXCEPT ![c] = Undefined]
    /\ last' = Idle
    /\ UNCHANGED <<store, key, pending, notStore>>

\* an event handler of consumer c calls the setValue handed to it: dispatch -> update(id, arg).
\* Consecutive SetValue steps of one consumer are the calls of one handler; React
\* re-renders when the handler has returned.
SetValue(c, arg) ==
    /\ phase[c] # "unmounted"
    /\ arg \in ArgsFor(key[c])
    /\ pending = {} \/ (last.op = "update" /\ last.id = c)
    /\ LET r == Update(c, arg)
           continues == /\ last.op = "update" /\ last.id = c /\ last.arg = arg
                        /\ ~last.threw /\ last.run >= 1 /\ last.run < MaxRun
       IN  /\ \A x \in r.calls : x.fn = "force" => forceX[x.id] < MaxForce
           /\ store' = r.store
           /\ hook' = [i \in Consumers |->
                        IF SetStateCall(r.calls, i) # {}
                        THEN (CHOOSE x \in SetStateCall(r.calls, i) : TRUE).arg
                        ELSE hook[i]]
           /\ forceX' = [i \in Consumers |->
                        IF ForceCall(r.calls, i) # {} THEN ForceReducer(forceX[i]) ELSE forceX[i]]
           /\ pending' = pending
                        \cup {i \in Consumers : \E x \in SetStateCall(r.calls, i) : x.arg # hook[i]}
                        \cup {i \in Consumers : ForceCall(r.calls, i) # {}}
           /\ last' = [op |-> "update", id |-> c, arg |-> IF r.threw THEN Undefined ELSE arg,
                       threw |-> r.threw,
                       calls |-> r.calls,
                       run |-> IF r.threw \/ ~IsFunction(arg) THEN 0
                               ELSE IF continues THEN last.run + 1 ELSE 1,
                       start |-> IF r.threw \/ ~IsFunction(arg) THEN Undefined
                                 ELSE IF continues THEN last.start ELSE r.cur]
    /\ UNCHANGED <<listeners, phase, key, state, dispatch, notStore>>

Next ==
    \/ \E c \in Consumers, k \in BindKeys : Mount(c, k)
    \/ \E c \in Consumers : Register(c)
    \/ Render
    \/ \E c \in Consumers : Unmount(c)
    \/ \E c \in Consumers, arg \in Args : SetValue(c, arg)

Spec == InitAll /\ [][Next]_vars

TypeOK ==
    /\ DOMAIN listeners \subseteq Consumers
    /\ \A c \in Consumers : phase[c] \in {"unmounted", "rendered", "registered", "gone"}
    /\ \A c \in Consumers : key[c] \in BindKeys
    /\ pending \subseteq DOMAIN listeners

\* ------------------------------------------------------ createGlobal
GlobalNext ==
    \/ \E c \in Consumers : GlobalMount(c)
    \/ \E c \in Consumers : GlobalRegister(c)
    \/ \E st \in Partials : SetGlobal(st)
    \/ GlobalRender
    \/ \E c \in Consumers : GlobalUnmount(c)

SpecGlobal == InitAll /\ [][GlobalNext]_globalVars

\* ---------------------------------------------------------- useAsync
AsyncNext ==
    \/ \E a \in Inputs : AsyncMount(a)
    \/ Effects
    \/ AsyncRender
    \/ \E a \in Inputs : NewInput(a)
    \/ Run
    \/ \E a \in Inputs, kind \in {"fulfilled", "rejected"} : Settle(a, kind)
    \/ AsyncUnmount

SpecAsync == InitAll /\ [][AsyncNext]_asyncVars

\* React runs the effects of a render and re-renders a component whose state changed
SpecAsyncFair == SpecAsync /\ WF_asyncVars(Effects) /\ WF_asyncVars(AsyncRender)

\* ---------------------------------------------------------- useForce
ForceNext ==
    \/ \E rev \in Revisions : ForceMount(rev)
    \/ Click
    \/ CallAgain
    \/ ForceRender

SpecForce == InitAll /\ [][ForceNext]_forceVars

\* ------------------------------------------------------- usePrevious
PreviousNext ==
    \/ \E value \in Values : PreviousMount(value)
    \/ PreviousEffect
    \/ \E value \in Values : PreviousRender(value)

SpecPrevious == InitAll /\ [][PreviousNext]_previousVars

\* ------------------------------------------ registration and removal
\* createStore, the effect of mount m: listeners[id] = [key, setState, force]
ListenerAdd(m, k) ==
    /\ ~uAdded[m]
    /\ uAdded' = [uAdded EXCEPT ![m] = TRUE]
    /\ uListeners' = AddListener(uListeners, m, k)
    /\ UNCHANGED <<uArray, uPushed, uDeletes, uSplices, notUnregister>>

\* createStore, the cleanup the effect of mount m returned: delete listeners[id]
ListenerDelete(m) ==
    /\ uAdded[m]
    /\ uDeletes[m] < MaxRun
    /\ uDeletes' = [uDeletes EXCEPT ![m] = @ + 1]
    /\ uListeners' = RemoveListener(uListeners, m)
    /\ UNCHANGED <<uArray, uAdded, uPushed, uSplices, notUnregister>>

\* createGlobal, the effect of mount m: dispatchArray.push(dispatch)
DispatchPush(m) ==
    /\ ~uPushed[m]
    /\ uPushed' = [uPushed EXCEPT ![m] = TRUE]
    /\ uArray' = Append(uArray, m)
    /\ UNCHANGED <<uListeners, uAdded, uDeletes, uSplices, notUnregister>>

\* createGlobal, the cleanup the effect of mount m returned:
\* dispatchArray.splice(dispatchArray.indexOf(dispatch), 1)
DispatchSplice(m) ==
    /\ uPushed[m]
    /\ uSplices[m] < MaxRun
    /\ uSplices' = [uSplices EXCEPT ![m] = @ + 1]
    /\ uArray' = Splice(uArray, IndexOf(uArray, m))
    /\ UNCHANGED <<uListeners, uAdded, uPushed, uDeletes, notUnregister>>

UnregisterNext ==
    \/ \E m \in Mounts, k \in BindKeys : ListenerAdd(m, k)
    \/ \E m \in Mounts : ListenerDelete(m)
    \/ \E m \in Mounts : DispatchPush(m)
    \/ \E m \in Mounts : DispatchSplice(m)

SpecUnregister == InitAll /\ [][UnregisterNext]_unregisterVars

\* -------------------------------------------------------- useBoolean
BooleanNext ==
    \/ \E init \in BOOLEAN : BooleanMount(init)
    \/ Toggle
    \/ SetTrue
    \/ SetFalse
    \/ \E b \in BOOLEAN : BooleanSetValue(b)
    \/ BooleanRender

SpecBoolean == InitAll /\ [][BooleanNext]_booleanVars

\* ------------------------------------------------------- useResource
ResourceNext ==
    \/ \E type \in Types, url \in Urls : ResourceMount(type, url)
    \/ ResourceEffect
    \/ ResourceRender
    \/ \E url \in Urls : NewUrl(url)
    \/ \E i \in 1..Len(rElements) : FireLoad(i)
    \/ \E i \in 1..Len(rElements), e \in Errors : FireError(i, e)
    \/ ResourceUnmount

SpecResource == InitAll /\ [][ResourceNext]_resourceVars

\* ------------------------------------------------------------ claims
\* the step is a call of update by a consumer that holds a registration
WriteBy(c) == last'.op = "update" /\ last'.id = c /\ c \in DOMAIN listeners

\* the value a setValue argument stands for, given the value the store holds
Resolved(arg, cur) == IF IsFunction(arg) THEN Apply(arg, cur) ELSE arg

\* an updater applied n times
RECURSIVE ApplyN(_, _, _)
ApplyN(f, n, v) == IF n = 0 THEN v ELSE ApplyN(f, n - 1, Apply(f, v))

\* the registered consumers bound to key k
BoundTo(k) == {d \in DOMAIN listeners : listeners[d].key = k}

\* C1: a setValue(v) through the binding of a registered consumer on key k, with v
\* (or, for an updater, its result on store[k]) not identical to store[k], invokes
\* the notify callback of every registered consumer bound to k with v; the cell of
\* each holds v, and each is scheduled for a re-render unless it already shows v.
C1_KeyedWriteNotifiesAll ==
    [][\A c \in Consumers :
        (/\ WriteBy(c)
         /\ listeners[c].key \in InitKeys
         /\ Resolved(last'.arg, StoreGet(store, listeners[c].key)) # StoreGet(store, listeners[c].key))
        => LET k == listeners[c].key
               v == Resolved(last'.arg, StoreGet(store, k))
           IN  \A d \in BoundTo(k) :
                /\ [id |-> d, fn |-> "setState", arg |-> v] \in last'.calls
                /\ hook'[d] = v
                /\ d \in pending' \/ state'[d] = v
      ]_vars

\* two consumers are registered on one key, one of them wrote and both were notified
C1_Witness ==
    /\ last.op = "update" /\ ~last.threw
    /\ key[last.id] \in InitKeys
    /\ \E d \in BoundTo(key[last.id]) :
        /\ d # last.id
        /\ [id |-> d, fn |-> "setState", arg |-> StoreGet(store, key[d])] \in last.calls
        /\ [id |-> last.id, fn |-> "setState", arg |-> StoreGet(store, key[d])] \in last.calls
        /\ hook[d] = StoreGet(store, key[d])
        /\ d \in pending

\* C2: a setValue through a binding on key k invokes no notify callback of a consumer
\* bound to another key k2, leaves the cell and the rendered value of that consumer
\* as they were, and leaves store[k2] as it was.
C2_OtherKeysUntouched ==
    [][\A c \in Consumers :
        (last'.op = "update" /\ last'.id = c /\ key[c] \in InitKeys)
        => /\ \A d \in Consumers :
                (phase[d] \in {"rendered", "registered"} /\ key[d] \in InitKeys \ {key[c]})
                => /\ SetStateCall(last'.calls, d) = {}
                   /\ hook'[d] = hook[d]
                   /\ state'[d] = state[d]
                   /\ d \in pending' <=> d \in pending
           /\ \A k2 \in InitKeys \ {key[c]} : StoreGet(store', k2) = StoreGet(store, k2)
      ]_vars

\* a write on one key took effect while a consumer bound to the other key was registered
C2_Witness ==
    /\ last.op = "update" /\ ~last.threw /\ last.calls # {}
    /\ key[last.id] \in InitKeys
    /\ \E d \in DOMAIN listeners : key[d] \in InitKeys \ {key[last.id]}

\* C3: a setValue on key k whose value (given directly or returned by the updater)
\* is identical to store[k] leaves the store as it was and invokes no notify and no
\* force callback: no cell, no reducer changes and no re-render is scheduled.
C3_IdempotentWrite ==
    [][\A c \in Consumers :
        (/\ WriteBy(c)
         /\ listeners[c].key \in InitKeys
         /\ Resolved(last'.arg, StoreGet(store, listeners[c].key)) = StoreGet(store, listeners[c].key))
        => /\ store' = store
           /\ last'.calls = {}
           /\ hook' = hook
           /\ forceX' = forceX
           /\ pending' = pending
      ]_vars

\* an updater returned the value the store holds while another consumer was
\* registered on the same key: nobody was called
C3_Witness ==
    /\ last.op = "update" /\ ~last.threw /\ last.arg = Identity
    /\ last.id \in DOMAIN listeners
    /\ key[last.id] \in InitKeys
    /\ last.calls = {}
    /\ \E d \in BoundTo(key[last.id]) : d # last.id

\* C4: a setValue through the keyless binding that takes effect notifies every
\* registration, keyed or keyless.
C4_WholeStoreWriteNotifiesAll ==
    (/\ last.op = "update" /\ ~last.threw
     /\ key[last.id] = NoKey
     /\ last.arg \in Objs
     /\ last.calls # {})
    => \A d \in DOMAIN listeners : \E x \in last.calls : x.id = d

\* C5: after setValue(r) through the keyless binding the fields of the store are
\* those of r: a consumer binding to key k next reads r[k].
C5_WholeStoreWriteReplaces ==
    (/\ last.op = "update" /\ ~last.threw
     /\ key[last.id] = NoKey
     /\ last.arg \in Objs)
    => \A k \in InitKeys : InitialState(k) = ObjRecord(last.arg)[k]

\* C6: the fields of the store are those of the record given to createStore.
C6_KeySetFixed == DOMAIN store = InitKeys

\* C7: a write that changes the store, whichever key it is on, invokes the force
\* callback of every registered keyless consumer: its reducer advances and a
\* re-render is scheduled.
C7_KeylessForcedOnEveryWrite ==
    [][(last'.op = "update" /\ store' # store)
        => \A d \in BoundTo(NoKey) :
            /\ [id |-> d, fn |-> "force", arg |-> Undefined] \in last'.calls
            /\ forceX'[d] # forceX[d]
            /\ d \in pending'
      ]_vars

\* a keyed consumer wrote while another consumer, keyless, was registered and forced
C7_Witness ==
    /\ last.op = "update" /\ ~last.threw
    /\ key[last.id] \in InitKeys
    /\ \E d \in BoundTo(NoKey) :
        /\ [id |-> d, fn |-> "force", arg |-> Undefined] \in last.calls
        /\ forceX[d] > 0

\* C8: once a consumer is gone, a write by a registered consumer raises no exception
\* and invokes neither callback of the departed one.
C8_NoCallAfterCleanup ==
    (last.op = "update" /\ phase[last.id] = "registered")
    => /\ ~last.threw
       /\ \A d \in Consumers : phase[d] = "gone" => \A x \in last.calls : x.id # d

\* a write by another consumer to the key the departed one watched took effect
C8_Witness ==
    /\ last.op = "update" /\ ~last.threw /\ last.calls # {}
    /\ phase[last.id] = "registered"
    /\ \E d \in Consumers : phase[d] = "gone" /\ key[d] = key[last.id]

\* C9: a setValue called by a consumer that holds no registration (gone, or rendered
\* with its effect still to run) raises no error, leaves the store as it was and
\* notifies nobody.
C9_LateSetValueIsNoOp ==
    (last.op = "update" /\ phase[last.id] \in {"rendered", "gone"})
    => ~last.threw /\ last.calls = {}

\* C10: the updater calls one handler issues in a row each read the store:
\* after n calls of setValue(f) the store holds f applied n times to the value the
\* first call found.
C10_UpdaterReadsStore ==
    (last.op = "update" /\ last.run >= 1)
    => StoreGet(store, key[last.id]) = ApplyN(last.arg, last.run, last.start)

\* a handler incremented twice with no render in between, its consumer still
\* showing the value from before the first call
C10_Witness ==
    /\ last.op = "update" /\ last.run = 2 /\ last.arg = Increment
    /\ last.id \in pending
    /\ state[last.id] = last.start

\* C11: the setValue a mounted consumer gets from bind is, on every render, the function
\* reference its first render returned, whatever writes, notifications and re-renders
\* happened in between.
C11_SetValueStable ==
    \A c \in Consumers : phase[c] \in {"rendered", "registered"} => dispatch[c].ref = 1

\* a keyless consumer has been forced by a write and has rendered again
C11_Witness ==
    \E c \in Consumers : /\ phase[c] = "registered" /\ key[c] = NoKey
                          /\ forceX[c] > 0 /\ pending = {} /\ dispatch[c].ref = 1

\* C12: the ids in the registry are exactly the consumers that have begun observing and
\* have not stopped, each under its own id with the key it watches; no entry remains
\* for a consumer that is gone.
C12_RegistryExact ==
    /\ DOMAIN listeners = {c \in Consumers : phase[c] = "registered"}
    /\ \A c \in DOMAIN listeners : listeners[c] = [key |-> key[c]]

\* one consumer is gone while another still observes
C12_Witness ==
    \E c, d \in Consumers : /\ phase[c] = "gone" /\ phase[d] = "registered"
                             /\ DOMAIN listeners = {d}
\* C13: on every call of setGlobal(partial) every consumer registered at that moment
\* gets exactly one dispatch call, and every dispatch call carries the partial itself,
\* whatever its fields and also when it has none; no other consumer gets a call.
C13_BroadcastToAll ==
    gLast.op = "setGlobal" =>
        /\ \A c \in Consumers :
              Cardinality({i \in DOMAIN gLast.calls : gLast.calls[i].id = c})
                  = IF gPhase[c] = "registered" THEN 1 ELSE 0
        /\ \A i \in DOMAIN gLast.calls : gLast.calls[i].arg = gLast.partial

\* setGlobal({}) was called while two consumers were registered, one of them rendering
\* a state that differs from global's first value
C13_Witness ==
    /\ gLast.op = "setGlobal" /\ gLast.partial = NoPartial
    /\ Len(gLast.calls) = 2
    /\ \A c \in {1, 2} : gPhase[c] = "registered" /\ gQueue[c] = <<NoPartial>>
    /\ gState[1] # GlobalRecord

\* C14: when a consumer renders after setGlobal calls, its state has, for every field
\* some partial carried, the value of the last partial that carried it (the nested
\* record as a whole), and for every other field the value it had before.
C14_ShallowMerge ==
    [][\A c \in Consumers :
          (gQueue[c] # <<>> /\ gQueue'[c] = <<>>) =>
              LET q == gQueue[c]
                  carry(f) == {i \in 1..Len(q) : f \in DOMAIN q[i]}
                  lastOf(f) == CHOOSE i \in carry(f) : \A j \in carry(f) : j <= i
              IN  /\ DOMAIN gState'[c] = DOMAIN gState[c] \cup UNION {DOMAIN q[i] : i \in 1..Len(q)}
                  /\ \A f \in DOMAIN gState'[c] :
                        gState'[c][f] = IF carry(f) = {} THEN gState[c][f]
                                        ELSE q[lastOf(f)][f]
      ]_globalVars

\* a consumer has processed {n: 1} and {o: {x: 1}}: n is kept, o has lost its y
C14_Witness ==
    \E c \in Consumers : /\ gPhase[c] = "registered" /\ gQueue[c] = <<>>
                          /\ gState[c] = [n |-> 1, o |-> [x |-> 1]]
\* what the hook returns: [state, value, error]
Reports(st, v, e) == aPhase = "mounted" /\ out = [state |-> st, value |-> v, error |-> e]

\* no promise has handlers attached and is unsettled
NothingAwaited ==
    /\ \A a \in Promises : pstatus[a.id] # "pending"
    /\ \A a \in Callbacks : cbPending[a.id] = 0

\* C15: when the promise given (promise form), or the promise run() got from the
\* callback (callback form), has fulfilled with value v after the effects of the render
\* with that argument ran, its handler was the last to run and no promise is still
\* awaited, the hook comes to report ("fulfilled", v, undefined), unless the component is given
\* another argument or unmounts first.
C15_FulfilledIsReported ==
    \A a \in Inputs :
        (/\ aPhase = "mounted" /\ input = a /\ lastDeps = a
         /\ current = "fulfilled" /\ handled = a /\ NothingAwaited)
            ~> (Reports("fulfilled", ResultOf(a), Undefined) \/ aPhase # "mounted" \/ input # a)

\* callback form: run() was invoked, the promise fulfilled and the hook reports it
C15_Witness ==
    /\ input = Callback(1) /\ ran /\ current = "fulfilled"
    /\ Reports("fulfilled", ResultOf(Callback(1)), Undefined)

\* C16: when the promise given, or the promise run() got from the callback, has
\* rejected with error e after the effects of the render with that argument ran, its
\* handler was the last to run and no promise is still awaited, the hook comes to report
\* ("rejected", undefined, e), unless the component is given another argument or
\* unmounts first.
C16_RejectedIsReported ==
    \A a \in Inputs :
        (/\ aPhase = "mounted" /\ input = a /\ lastDeps = a
         /\ current = "rejected" /\ handled = a /\ NothingAwaited)
            ~> (Reports("rejected", Undefined, ResultOf(a)) \/ aPhase # "mounted" \/ input # a)

\* promise form: the promise rejected and the hook reports it
C16_Witness ==
    /\ input = Promise(1) /\ ~ran /\ current = "rejected"
    /\ Reports("rejected", Undefined, ResultOf(Promise(1)))

\* C17: after the component was re-rendered with another argument and the effects of
\* that render have run, the hook reports ("pending", undefined, undefined) in every
\* render as long as the new input has not settled.
C17_PendingUntilNewInputSettles ==
    (aPhase = "mounted" /\ changes > 0 /\ lastDeps = input /\ current = "none" /\ out = cells)
        => Reports("pending", Undefined, Undefined)

\* C18: as long as run() has never been invoked no callback has been called, and a
\* component that was only ever given callbacks reports ("pending", undefined,
\* undefined), however often it was rendered.
C18_CallbackOnDemand ==
    ~ran =>
        /\ ~called
        /\ (aPhase = "mounted" /\ \A a \in Promises : pstatus[a.id] = "unused")
              => Reports("pending", Undefined, Undefined) /\ cells = out

\* a component given a callback has run its effects, and run() was never invoked
C18_Witness ==
    /\ aPhase = "mounted" /\ input = Callback(1) /\ lastDeps = input /\ ~ran
    /\ Reports("pending", Undefined, Undefined)

\* C19: from its first render on, and as long as the promise of its first argument
\* has not settled, also after run() in the callback form, the hook reports
\* ("pending", undefined, undefined) in every render.
C19_InitiallyPending ==
    (aPhase = "mounted" /\ changes = 0 /\ current = "none")
        => Reports("pending", Undefined, Undefined)

\* callback form: run() was invoked and the promise it got has not settled
C19_Witness ==
    /\ aPhase = "mounted" /\ input = Callback(1) /\ ran /\ cbPending[1] > 0
    /\ current = "none" /\ Reports("pending", Undefined, Undefined)
\* C20: as long as every event handler invokes the callback once, an invocation leaves
\* the reducer in a state other than the one of the last render, and a component that
\* was forced n times has rendered n + 1 times; for each revision of useForce.
C20_EveryCallRerenders ==
    (fRev # "none" /\ fSingle) =>
        /\ fBatch = 1 => fX # fShown
        /\ fBatch = 0 => fRenders = fCalls + 1

\* the toggle revision, clicked twice: the state is the initial one again, three renders
C20_Witness ==
    /\ fRev = "toggle" /\ fSingle /\ fBatch = 0
    /\ fCalls = 2 /\ fRenders = 3 /\ fX = FALSE
\* C21: the first render returns the value it was passed, and every later render
\* returns the value that was passed on the render just before it.
C21_ReturnsPrecedingValue ==
    /\ Len(pReturned) = Len(pSeen)
    /\ \A i \in 1..Len(pSeen) : pReturned[i] = IF i = 1 THEN pSeen[1] ELSE pSeen[i - 1]

\* the values 0, 1, 1 were rendered and 0, 0, 1 returned: the third render repeats a value
C21_Witness ==
    /\ pSeen = <<Num(0), Num(1), Num(1)>>
    /\ pReturned = <<Num(0), Num(0), Num(1)>>
\* C22: when only toggle() was invoked, n times, with renders between the invocations
\* or not, the value the component renders afterwards is init for even n and the
\* negation of init for odd n.
C22_ToggleParity ==
    (bPhase = "mounted" /\ bOnly /\ bQueue = <<>>) =>
        bValue = IF bToggles % 2 = 0 THEN bInit ELSE ~bInit

\* toggle() was invoked three times and nothing else
C22_Witness ==
    /\ bPhase = "mounted" /\ bOnly /\ bQueue = <<>>
    /\ bToggles = 3 /\ bRepeat = 3 /\ bValue = ~bInit

\* C23: when the setter invoked last is setTrue() the value rendered afterwards is
\* true, and when it is setFalse() the value is false, whatever the value was before
\* and however often the setter was invoked in a row.
C23_ConstantSetters ==
    (bPhase = "mounted" /\ bQueue = <<>>) =>
        /\ bLastOp = "setTrue" => bValue = TRUE
        /\ bLastOp = "setFalse" => bValue = FALSE

\* after toggles that left the value false, setTrue() was invoked twice
C23_Witness ==
    /\ bPhase = "mounted" /\ bQueue = <<>> /\ bInit = TRUE /\ bToggles = 1
    /\ bLastOp = "setTrue" /\ bRepeat = 2 /\ bValue = TRUE
\* the element the effect created for the url of the last render
CurrentElement == IF rDeps = rUrl THEN Len(rElements) ELSE 0

\* the render shows the cells as they were last set
Shown == rPhase = "mounted" /\ rOut = rCell

\* C24: useResource first returns [false, null]; once the event fired last is the load
\* event of the element created for the current url, the render after it returns
\* [true, null]; once it is an error event e of that element, the render returns
\* [false, e].
C24_ReportsLoadOutcome ==
    /\ (rPhase = "mounted" /\ rLast.by = "none") => rOut = [loaded |-> FALSE, error |-> Null]
    /\ (Shown /\ rLast.by = "load" /\ rLast.el = CurrentElement) =>
            rOut = [loaded |-> TRUE, error |-> Null]
    /\ (Shown /\ rLast.by = "error" /\ rLast.el = CurrentElement) =>
            rOut = [loaded |-> FALSE, error |-> rLast.e]

\* after a change of the url, the element of the old url fired its load event and then
\* the element of the new url its error event
C24_Witness ==
    /\ Shown /\ Len(rElements) = 2 /\ rElements[1].fired
    /\ rLast = [by |-> "error", el |-> 2, e |-> "e1"] /\ CurrentElement = 2
    /\ rOut = [loaded |-> FALSE, error |-> "e1"]
\* C25: a write through a keyed binding that changes store[k] has stored the new value
\* when the registrations are notified: every setState the write invokes is handed the
\* value store[k] holds after the write, which is the value written.
C25_WritesBeforeNotifying ==
    [][\A c \in Consumers :
        (/\ WriteBy(c)
         /\ listeners[c].key \in InitKeys
         /\ Resolved(last'.arg, StoreGet(store, listeners[c].key)) # StoreGet(store, listeners[c].key))
        => LET k == listeners[c].key
           IN  /\ StoreGet(store', k) = Resolved(last'.arg, StoreGet(store, k))
               /\ \A x \in last'.calls : x.fn = "setState" => x.arg = StoreGet(store', k)
      ]_vars

\* an updater through the binding to num changed store.num, and both consumers bound
\* to num were handed the new number
C25_Witness ==
    /\ last.op = "update" /\ ~last.threw /\ IsFunction(last.arg)
    /\ key[last.id] = "num" /\ last.start # StoreGet(store, "num")
    /\ \A d \in Consumers :
        [id |-> d, fn |-> "setState", arg |-> StoreGet(store, "num")] \in last.calls
\* C26: the first render of a consumer that binds to key k returns the value store[k]
\* holds at that render, whatever was written before it.
C26_LateBinderReadsLive ==
    [][\A c \in Consumers :
        (phase[c] = "unmounted" /\ phase'[c] = "rendered" /\ key'[c] \in InitKeys)
        => state'[c] = StoreGet(store, key'[c])
      ]_vars

\* the second consumer has just bound to num after the first wrote it
C26_Witness ==
    /\ last = Idle /\ phase[2] = "rendered" /\ key[2] = "num"
    /\ StoreGet(store, "num") = Num(1)
    /\ state[2] = Num(1)
\* C27: whenever no re-render is outstanding, every registered consumer bound to a key
\* k shows the value store[k] holds, in every interleaving of first renders,
\* registrations, writes and unregistrations.
C27_ConsumersNeverStale ==
    pending = {} =>
        \A c \in Consumers :
            (phase[c] = "registered" /\ key[c] \in InitKeys) => state[c] = StoreGet(store, key[c])
\* the array without the dispatch of mount m
Without(arr, m) == SelectSeq(arr, LAMBDA d : d # m)

====
